---- MODULE Spec2Model ----
(***************************************************************************)
(* A model of calculate-results.go: the parallel scan-and-reduce engine    *)
(* of 1brc-go.  The file is a sequence of bytes; parseFile spawns one      *)
(* goroutine per byte range (processFilePart), every goroutine aligns to   *)
(* a line start (seekToLineStart), folds lines into a private LocationMap  *)
(* (processLine) and sends it on an unbuffered channel; the coordinator    *)
(* merges the N tables it receives (LocationMap.merge).                    *)
(***************************************************************************)
EXTENDS Integers, Sequences, FiniteSets, TLC

VARIABLES
  records,         \* history: the records the input file was written from
  file,            \* the bytes of the input file (offset o is file[o+1])
  nWorkerThreads,  \* parseFile's argument
  cpc,             \* position of parseFile: "spawn", "recv", "done"
  ci,              \* the loop index i of parseFile's current loop
  resultMap,       \* parseFile's resultMap
  received,        \* history: the scanners whose table was received, in order
  spc,             \* position of each processFilePart goroutine
  byteOffset,      \* argument byteOffset of each goroutine
  byteLength,      \* argument byteLength of each goroutine
  bytesScanned,    \* local bytesScanned of each goroutine
  scanPos,         \* offset of the next byte the goroutine's Scanner returns
  m,               \* the goroutine's private LocationMap
  folded,          \* history: offsets of the line starts the goroutine folded
  readErr,         \* history: the goroutine's Scanner stopped on an error
  jobs,            \* history: the jobs each worker of a job-channel variant took
  valueBytes,      \* the argument of a call of parseMeasurement
  parsed,          \* the Measurement the call returned
  heap,            \* the Location objects, by address
  partial,         \* received partial tables: key -> address of a Location
  resultPtr,       \* the result table: key -> address of a Location
  merged           \* the partial tables merged into the result table, in order

\* the variables the runs of parseFile leave alone
aux == <<jobs, valueBytes, parsed, heap, partial, resultPtr, merged>>

\* the variables of a run of parseFile
run == <<records, file, nWorkerThreads, cpc, ci, resultMap, received, spc,
         byteOffset, byteLength, bytesScanned, scanPos, m, folded, readErr>>

vars == <<run, aux>>

(***************************************************************************)
(* Bounds of the model.                                                    *)
(***************************************************************************)
MaxLines == 3
MaxWorkers == 3
MaxIntDigits == 2
MaxTables == 3
FairLines == 2
FaultLines == 2
WideWorkers == 7

(***************************************************************************)
(* Bytes.                                                                  *)
(***************************************************************************)
NL == 10
CR == 13
SEMI == 59
MINUS == 45
ZERO == 48
NINE == 57

(***************************************************************************)
(* Measurement: fixed-point tenths.                                        *)
(***************************************************************************)
RECURSIVE parseDigits(_, _)
parseDigits(byteStr, intValue) ==
  IF byteStr = <<>> THEN intValue
  ELSE LET b == Head(byteStr)
       IN  IF b >= ZERO /\ b <= NINE
           THEN parseDigits(Tail(byteStr), intValue * 10 + (b - ZERO))
           ELSE parseDigits(Tail(byteStr), intValue)

\* parseMeasurement without the sign
parseMeasurementUnsigned(byteStr) == parseDigits(byteStr, 0)

parseMeasurement(byteStr) ==
  LET multiplier == IF byteStr[1] = MINUS THEN -1 ELSE 1
  IN  multiplier * parseDigits(byteStr, 0)

min(a, b) == IF a < b THEN a ELSE b

max(a, b) == IF a < b THEN b ELSE a

(***************************************************************************)
(* calculateHash works on Go's 64-bit int.  A hash is kept as four 16-bit  *)
(* limbs, least significant first, and every step is taken modulo 2^64.    *)
(***************************************************************************)
LimbBase == 65536

RECURSIVE Xor(_, _)
Xor(a, b) ==
  IF a = 0 THEN b
  ELSE IF b = 0 THEN a
  ELSE (((a % 2) + (b % 2)) % 2) + 2 * Xor(a \div 2, b \div 2)

\* 0x811c9dc5 = 0x811c * 2^16 + 0x9dc5
HashSeed == <<40389, 33052, 0, 0>>

\* h = (h ^ int(b)) * 0x01000193, with 0x01000193 = 256 * 2^16 + 403
HashStep(h, b) ==
  LET x0 == (h[1] - (h[1] % 256)) + Xor(h[1] % 256, b)
      r0 == x0 * 403
      r1 == (h[2] * 403) + (x0 * 256) + (r0 \div LimbBase)
      r2 == (h[3] * 403) + (h[2] * 256) + (r1 \div LimbBase)
      r3 == (h[4] * 403) + (h[3] * 256) + (r2 \div LimbBase)
  IN  <<r0 % LimbBase, r1 % LimbBase, r2 % LimbBase, r3 % LimbBase>>

RECURSIVE hashFrom(_, _)
hashFrom(h, bytes) ==
  IF bytes = <<>> THEN h ELSE hashFrom(HashStep(h, Head(bytes)), Tail(bytes))

calculateHash(bytes) == hashFrom(HashSeed, bytes)

(***************************************************************************)
(* Location and LocationMap.                                               *)
(***************************************************************************)
NewLocation(name, hash, value) ==
  [name |-> name, hash |-> hash, min |-> value, max |-> value,
   sum |-> value, count |-> 1]

LocationMerge(a, b) ==
  [name |-> a.name, hash |-> a.hash, min |-> min(a.min, b.min),
   max |-> max(a.max, b.max), sum |-> a.sum + b.sum,
   count |-> a.count + b.count]

\* Location.append without count++
LocationAppendNoCount(loc, v) ==
  [loc EXCEPT !.min = min(loc.min, v), !.max = max(loc.max, v),
              !.sum = loc.sum + v]

LocationAppend(loc, v) ==
  [loc EXCEPT !.min = min(loc.min, v), !.max = max(loc.max, v),
              !.sum = loc.sum + v, !.count = loc.count + 1]

EmptyMap == <<>>

LocationMapMerge(a, b) ==
  [key \in (DOMAIN a) \cup (DOMAIN b) |->
     IF key \in DOMAIN b
     THEN IF key \in DOMAIN a THEN LocationMerge(a[key], b[key]) ELSE b[key]
     ELSE a[key]]

(***************************************************************************)
(* processLine: bytes.Cut on the first ';', then insert or append.         *)
(***************************************************************************)
RECURSIVE IndexOf(_, _, _)
IndexOf(s, b, from) ==
  IF from > Len(s) THEN 0
  ELSE IF s[from] = b THEN from ELSE IndexOf(s, b, from + 1)

Cut(line, sep) ==
  LET k == IndexOf(line, sep, 1)
  IN  IF k = 0
      THEN [before |-> line, after |-> <<>>, found |-> FALSE]
      ELSE [before |-> SubSeq(line, 1, k - 1),
            after |-> SubSeq(line, k + 1, Len(line)), found |-> TRUE]

\* processLine without the return after "Separator not found": the line is
\* taken as a station name with the value 0
processLineNoReturn(line, tbl) ==
  LET c == Cut(line, SEMI)
      hash == calculateHash(c.before)
      value == IF c.found THEN parseMeasurement(c.after) ELSE 0
  IN  IF hash \in DOMAIN tbl
      THEN [tbl EXCEPT ![hash] = LocationAppend(tbl[hash], value)]
      ELSE [key \in (DOMAIN tbl) \cup {hash} |->
              IF key = hash THEN NewLocation(c.before, hash, value)
              ELSE tbl[key]]

processLine(line, tbl) ==
  LET c == Cut(line, SEMI)
  IN  IF ~c.found THEN tbl
      ELSE LET hash == calculateHash(c.before)
               value == parseMeasurement(c.after)
           IN  IF hash \in DOMAIN tbl
               THEN [tbl EXCEPT ![hash] = LocationAppend(tbl[hash], value)]
               ELSE [key \in (DOMAIN tbl) \cup {hash} |->
                       IF key = hash THEN NewLocation(c.before, hash, value)
                       ELSE tbl[key]]

(***************************************************************************)
(* The file as the os.File and the bufio.Scanner present it.               *)
(***************************************************************************)
READ_BUFFER == 128
LOOKAHEAD == 1024

\* the offset of the first '\n' at or after offset from, or -1
RECURSIVE nextNewline(_, _, _)
nextNewline(data, from, limit) ==
  IF from >= limit THEN -1
  ELSE IF data[from + 1] = NL THEN from ELSE nextNewline(data, from + 1, limit)

\* the for loop of seekToLineStart, the read pointer being at
\* byteOffset - 1 + byteIndex
RECURSIVE seekLoop(_, _, _)
seekLoop(data, offset, byteIndex) ==
  IF byteIndex >= LOOKAHEAD
  THEN [discarded |-> LOOKAHEAD, position |-> -1, err |-> TRUE]
  ELSE LET readAt == offset - 1 + byteIndex
           bytesRead == min(READ_BUFFER, Len(data) - readAt)
       IN  IF bytesRead <= 0
           THEN [discarded |-> byteIndex, position |-> -1, err |-> TRUE]
           ELSE LET nl == nextNewline(data, readAt, readAt + bytesRead)
                IN  IF nl >= 0
                    THEN LET position == offset + byteIndex + (nl - readAt)
                         IN  [discarded |-> position - offset,
                              position |-> position, err |-> FALSE]
                    ELSE seekLoop(data, offset, byteIndex + bytesRead)

\* seekToLineStart with the read pointer set to byteOffset instead of
\* byteOffset - 1
seekToLineStartPastOffset(data, offset) ==
  IF offset = 0
  THEN [discarded |-> 0, position |-> 0, err |-> FALSE]
  ELSE LET r == seekLoop(data, offset + 1, 0)
       IN  [discarded |-> IF r.err THEN r.discarded ELSE r.position - offset,
            position |-> r.position, err |-> r.err]

seekToLineStart(data, offset) ==
  IF offset = 0
  THEN [discarded |-> 0, position |-> 0, err |-> FALSE]
  ELSE seekLoop(data, offset, 0)

dropCR(line) ==
  IF Len(line) > 0 /\ line[Len(line)] = CR
  THEN SubSeq(line, 1, Len(line) - 1)
  ELSE line

\* bufio.ScanLines at offset pos < Len(data): the token and the next offset
ScanLines(data, pos) ==
  LET nl == nextNewline(data, pos, Len(data))
  IN  IF nl >= 0
      THEN [line |-> dropCR(SubSeq(data, pos + 1, nl)), next |-> nl + 1]
      ELSE [line |-> SubSeq(data, pos + 1, Len(data)), next |-> Len(data)]

(***************************************************************************)
(* Input files: up to MaxLines well-formed records <name>;<value>\n.       *)
(* A value is given with the number of tenths its text denotes.            *)
(***************************************************************************)
NameA == <<65>>
NameABC == <<65, 66, 67>>

\* "REZBileyvMGD" and "JEUAwJCRkutA": calculateHash is 0x86900c17a17b3491
\* for both
NameREZ == <<82, 69, 90, 66, 105, 108, 101, 121, 118, 77, 71, 68>>
NameJEU == <<74, 69, 85, 65, 119, 74, 67, 82, 107, 117, 116, 65>>

Names == {NameA, NameABC}

CollidingNames == {NameREZ, NameJEU}

\* "1.0" and "-2.5"
Values == {[bytes |-> <<49, 46, 48>>, tenths |-> 10],
           [bytes |-> <<45, 50, 46, 53>>, tenths |-> -25]}

Records(names) == [name : names, value : Values]

RecordSeqs(names, n) == UNION {[1..k -> Records(names)] : k \in 1..n}

MakeLine(rec) == rec.name \o <<SEMI>> \o rec.value.bytes \o <<NL>>

RECURSIVE Render(_)
Render(recs) ==
  IF recs = <<>> THEN <<>> ELSE MakeLine(Head(recs)) \o Render(Tail(recs))

(***************************************************************************)
(* parseFile and the processFilePart goroutines.                           *)
(***************************************************************************)
Workers == 0..(nWorkerThreads - 1)

fileSize == Len(file)

blockSize == fileSize \div nWorkerThreads

\* no call of parseMeasurement, no Location object, no job taken
AuxIdle ==
  /\ jobs = <<>>
  /\ valueBytes = <<>>
  /\ parsed = <<>>
  /\ heap = <<>>
  /\ partial = <<>>
  /\ resultPtr = <<>>
  /\ merged = <<>>

\* parseFile is given a worker count n with 1 <= n <= fileSize
InitFor(recs, f, n) ==
  /\ AuxIdle
  /\ n <= Len(f)
  /\ records = recs
  /\ file = f
  /\ nWorkerThreads = n
  /\ cpc = "spawn"
  /\ ci = 0
  /\ resultMap = EmptyMap
  /\ received = <<>>
  /\ spc = [i \in 0..(n - 1) |-> "unspawned"]
  /\ byteOffset = [i \in 0..(n - 1) |-> 0]
  /\ byteLength = [i \in 0..(n - 1) |-> 0]
  /\ bytesScanned = [i \in 0..(n - 1) |-> 0]
  /\ scanPos = [i \in 0..(n - 1) |-> 0]
  /\ m = [i \in 0..(n - 1) |-> EmptyMap]
  /\ folded = [i \in 0..(n - 1) |-> {}]
  /\ readErr = [i \in 0..(n - 1) |-> FALSE]

Init ==
  \E recs \in RecordSeqs(Names, MaxLines), n \in 1..MaxWorkers :
    InitFor(recs, Render(recs), n)

\* go processFilePart(filename, int64(i)*blockSize, blockSize, res)
Spawn ==
  /\ cpc = "spawn"
  /\ spc' = [spc EXCEPT ![ci] = "open"]
  /\ byteOffset' = [byteOffset EXCEPT ![ci] = ci * blockSize]
  /\ byteLength' = [byteLength EXCEPT ![ci] = blockSize]
  /\ IF ci + 1 < nWorkerThreads
     THEN ci' = ci + 1 /\ cpc' = cpc
     ELSE ci' = 0 /\ cpc' = "recv"
  /\ UNCHANGED <<aux, records, file, nWorkerThreads, resultMap, received, bytesScanned,
                 scanPos, m, folded, readErr>>

\* os.Open succeeds; if byteOffset > 0, seekToLineStart moves the read
\* pointer to a line start, or the goroutine returns on its error
Open(i) ==
  /\ spc[i] = "open"
  /\ LET r == seekToLineStart(file, byteOffset[i])
     IN  IF byteOffset[i] > 0 /\ r.err
         THEN /\ spc' = [spc EXCEPT ![i] = "returned"]
              /\ UNCHANGED <<bytesScanned, scanPos>>
         ELSE /\ spc' = [spc EXCEPT ![i] = "scan"]
              /\ bytesScanned' =
                   [bytesScanned EXCEPT ![i] = bytesScanned[i] + r.discarded]
              /\ scanPos' = [scanPos EXCEPT ![i] = r.position]
  /\ UNCHANGED <<aux, records, file, nWorkerThreads, cpc, ci, resultMap, received,
                 byteOffset, byteLength, m, folded, readErr>>

\* os.Open fails: the goroutine prints the error and returns
OpenFail(i) ==
  /\ spc[i] = "open"
  /\ spc' = [spc EXCEPT ![i] = "returned"]
  /\ UNCHANGED <<aux, records, file, nWorkerThreads, cpc, ci, resultMap, received,
                 byteOffset, byteLength, bytesScanned, scanPos, m, folded,
                 readErr>>

\* ScanFold with one table for all the goroutines, that of goroutine 0
ScanFoldShared(i) ==
  /\ spc[i] = "scan"
  /\ scanPos[i] < fileSize
  /\ bytesScanned[i] < byteLength[i]
  /\ LET t == ScanLines(file, scanPos[i])
     IN  /\ bytesScanned' =
              [bytesScanned EXCEPT ![i] = bytesScanned[i] + Len(t.line)]
         /\ m' = [m EXCEPT ![0] = processLine(t.line, m[0])]
         /\ folded' = [folded EXCEPT ![i] = folded[i] \cup {scanPos[i]}]
         /\ scanPos' = [scanPos EXCEPT ![i] = t.next]
  /\ UNCHANGED <<aux, records, file, nWorkerThreads, cpc, ci, resultMap, received, spc,
                 byteOffset, byteLength, readErr>>

\* fileScanner.Scan() && bytesScanned < byteLength holds: fold the line
ScanFold(i) ==
  /\ spc[i] = "scan"
  /\ scanPos[i] < fileSize
  /\ bytesScanned[i] < byteLength[i]
  /\ LET t == ScanLines(file, scanPos[i])
     IN  /\ bytesScanned' =
              [bytesScanned EXCEPT ![i] = bytesScanned[i] + Len(t.line)]
         /\ m' = [m EXCEPT ![i] = processLine(t.line, m[i])]
         /\ folded' = [folded EXCEPT ![i] = folded[i] \cup {scanPos[i]}]
         /\ scanPos' = [scanPos EXCEPT ![i] = t.next]
  /\ UNCHANGED <<aux, records, file, nWorkerThreads, cpc, ci, resultMap, received, spc,
                 byteOffset, byteLength, readErr>>

\* Scan() returns a line but bytesScanned < byteLength fails: leave the loop
ScanStop(i) ==
  /\ spc[i] = "scan"
  /\ scanPos[i] < fileSize
  /\ ~(bytesScanned[i] < byteLength[i])
  /\ scanPos' = [scanPos EXCEPT ![i] = ScanLines(file, scanPos[i]).next]
  /\ spc' = [spc EXCEPT ![i] = "send"]
  /\ UNCHANGED <<aux, records, file, nWorkerThreads, cpc, ci, resultMap, received,
                 byteOffset, byteLength, bytesScanned, m, folded, readErr>>

\* Scan() returns false at the end of the file: leave the loop
ScanEOF(i) ==
  /\ spc[i] = "scan"
  /\ scanPos[i] >= fileSize
  /\ spc' = [spc EXCEPT ![i] = "send"]
  /\ UNCHANGED <<aux, records, file, nWorkerThreads, cpc, ci, resultMap, received,
                 byteOffset, byteLength, bytesScanned, scanPos, m, folded,
                 readErr>>

\* Scan() returns false on a read error (or bufio.ErrTooLong) before the
\* end of the file: the loop ends as it does at the end of the file
ScanError(i) ==
  /\ spc[i] = "scan"
  /\ scanPos[i] < fileSize
  /\ spc' = [spc EXCEPT ![i] = "send"]
  /\ readErr' = [readErr EXCEPT ![i] = TRUE]
  /\ UNCHANGED <<aux, records, file, nWorkerThreads, cpc, ci, resultMap, received,
                 byteOffset, byteLength, bytesScanned, scanPos, m, folded>>

\* Receive, with the goroutine left ready to send its table again
ReceiveAgain(i) ==
  /\ cpc = "recv"
  /\ spc[i] = "send"
  /\ resultMap' = LocationMapMerge(resultMap, m[i])
  /\ received' = Append(received, i)
  /\ IF ci + 1 < nWorkerThreads
     THEN ci' = ci + 1 /\ cpc' = cpc
     ELSE ci' = ci + 1 /\ cpc' = "done"
  /\ UNCHANGED <<aux, records, file, nWorkerThreads, spc, byteOffset, byteLength,
                 bytesScanned, scanPos, m, folded, readErr>>

\* co <- m meets m := <-res; resultMap.merge(m)
Receive(i) ==
  /\ cpc = "recv"
  /\ spc[i] = "send"
  /\ resultMap' = LocationMapMerge(resultMap, m[i])
  /\ received' = Append(received, i)
  /\ spc' = [spc EXCEPT ![i] = "done"]
  /\ IF ci + 1 < nWorkerThreads
     THEN ci' = ci + 1 /\ cpc' = cpc
     ELSE ci' = ci + 1 /\ cpc' = "done"
  /\ UNCHANGED <<aux, records, file, nWorkerThreads, byteOffset, byteLength, bytesScanned,
                 scanPos, m, folded, readErr>>

Next ==
  \/ Spawn
  \/ \E i \in Workers : Open(i)
  \/ \E i \in Workers : ScanFold(i)
  \/ \E i \in Workers : ScanStop(i)
  \/ \E i \in Workers : ScanEOF(i)
  \/ \E i \in Workers : Receive(i)

Spec == Init /\ [][Next]_vars

(***************************************************************************)
(* The same program on files whose station names include two names with    *)
(* the same calculateHash.                                                 *)
(***************************************************************************)
InitCollide ==
  \E recs \in RecordSeqs(CollidingNames, MaxLines), n \in 1..MaxWorkers :
    InitFor(recs, Render(recs), n)

SpecCollide == InitCollide /\ [][Next]_vars

(***************************************************************************)
(* The same program with up to WideWorkers goroutines on one-station       *)
(* files of one or two lines.                                              *)
(***************************************************************************)
InitWide ==
  \E recs \in RecordSeqs({NameA}, 2), n \in 1..WideWorkers :
    InitFor(recs, Render(recs), n)

SpecWide == InitWide /\ [][Next]_vars

(***************************************************************************)
(* The same program in an environment where os.Open and the Scanner's      *)
(* reads can fail, and where the last line of the file may lack its '\n'.  *)
(***************************************************************************)
Chop(data) == SubSeq(data, 1, Len(data) - 1)

InitFault ==
  \E recs \in RecordSeqs(Names, FaultLines), n \in 1..MaxWorkers :
    \/ InitFor(recs, Render(recs), n)
    \/ InitFor(recs, Chop(Render(recs)), n)

NextFault ==
  \/ Spawn
  \/ \E i \in Workers : Open(i)
  \/ \E i \in Workers : OpenFail(i)
  \/ \E i \in Workers : ScanFold(i)
  \/ \E i \in Workers : ScanStop(i)
  \/ \E i \in Workers : ScanEOF(i)
  \/ \E i \in Workers : ScanError(i)
  \/ \E i \in Workers : Receive(i)

SpecFault == InitFault /\ [][NextFault]_vars

(***************************************************************************)
(* The same program on files with one line that has no ';': "XYZ" or an    *)
(* empty line, before, between or after the well-formed records.           *)
(***************************************************************************)
JunkLines == {<<88, 89, 90>>, <<>>}

InitMalformed ==
  \E recs \in RecordSeqs(Names, FaultLines), k \in 0..FaultLines,
     junk \in JunkLines, n \in 1..MaxWorkers :
    /\ k <= Len(recs)
    /\ InitFor(recs,
               Render(SubSeq(recs, 1, k)) \o junk \o <<NL>>
                 \o Render(SubSeq(recs, k + 1, Len(recs))),
               n)

SpecMalformed == InitMalformed /\ [][Next]_vars

(***************************************************************************)
(* The job-channel variants (src/unnamed/part_000, part_002): parseFile    *)
(* starts nWorkerThreads goroutines that range over the unbuffered job     *)
(* channel c, sends one JobDefinition per range on c, then receives one    *)
(* table per range on res.  A goroutine seeks to byteOffset - 1 and folds  *)
(* the lines that isValidLine accepts.  jobs lists, in the order of the    *)
(* sends, the pairs <<goroutine, range>> of the jobs taken.  The bytes of  *)
(* the model are ASCII, where the first rune of a line is its first byte.  *)
(***************************************************************************)
getFirstRune(line) == IF Len(line) = 0 THEN ZERO ELSE line[1]

isValidLine(line) == getFirstRune(line) \in 65..90

\* SpawnWorker with the loop ending one goroutine short
SpawnWorkerShort ==
  /\ cpc = "spawn"
  /\ spc' = IF ci + 1 < nWorkerThreads THEN [spc EXCEPT ![ci] = "idle"] ELSE spc
  /\ IF ci + 1 < nWorkerThreads
     THEN ci' = ci + 1 /\ cpc' = cpc
     ELSE ci' = 0 /\ cpc' = "jobs"
  /\ UNCHANGED <<records, file, nWorkerThreads, resultMap, received,
                 byteOffset, byteLength, bytesScanned, scanPos, m, folded,
                 readErr, aux>>

\* go processFilePart(c, res): the goroutine blocks on range ci
SpawnWorker ==
  /\ cpc = "spawn"
  /\ spc' = [spc EXCEPT ![ci] = "idle"]
  /\ IF ci + 1 < nWorkerThreads
     THEN ci' = ci + 1 /\ cpc' = cpc
     ELSE ci' = 0 /\ cpc' = "jobs"
  /\ UNCHANGED <<records, file, nWorkerThreads, resultMap, received,
                 byteOffset, byteLength, bytesScanned, scanPos, m, folded,
                 readErr, aux>>

\* c <- JobDefinition{filename, i*blockSize, blockSize} meets job := range ci
\* of goroutine w, which opens the file and seeks to byteOffset - 1
TakeJob(w) ==
  /\ cpc = "jobs"
  /\ spc[w] = "idle"
  /\ jobs' = Append(jobs, <<w, ci>>)
  /\ byteOffset' = [byteOffset EXCEPT ![w] = ci * blockSize]
  /\ byteLength' = [byteLength EXCEPT ![w] = blockSize]
  /\ scanPos' = [scanPos EXCEPT ![w] =
                   IF ci * blockSize > 0 THEN ci * blockSize - 1 ELSE 0]
  /\ bytesScanned' = [bytesScanned EXCEPT ![w] = 0]
  /\ m' = [m EXCEPT ![w] = EmptyMap]
  /\ spc' = [spc EXCEPT ![w] = "scan"]
  /\ IF ci + 1 < nWorkerThreads
     THEN ci' = ci + 1 /\ cpc' = cpc
     ELSE ci' = 0 /\ cpc' = "recv"
  /\ UNCHANGED <<records, file, nWorkerThreads, resultMap, received, folded,
                 readErr, valueBytes, parsed, heap, partial, resultPtr,
                 merged>>

\* the update of processLine: add the value to the entry of the hash, or
\* insert a new Location
insertOrAppend(tbl, name, hash, value) ==
  IF hash \in DOMAIN tbl
  THEN [tbl EXCEPT ![hash] = LocationAppend(tbl[hash], value)]
  ELSE [key \in (DOMAIN tbl) \cup {hash} |->
          IF key = hash THEN NewLocation(name, hash, value) ELSE tbl[key]]

\* fileScanner.Scan() && bytesScanned < job.byteLength holds: count the line
\* and, if isValidLine accepts it, processLine: cut it at the first ';' and
\* fold the value, counted in tenths, under the hash of the name
JobScan(w) ==
  /\ spc[w] = "scan"
  /\ scanPos[w] < fileSize
  /\ bytesScanned[w] < byteLength[w]
  /\ \E t \in {ScanLines(file, scanPos[w])} :
       /\ bytesScanned' =
            [bytesScanned EXCEPT ![w] = bytesScanned[w] + Len(t.line)]
       /\ scanPos' = [scanPos EXCEPT ![w] = t.next]
       /\ IF isValidLine(t.line)
          THEN /\ folded' = [folded EXCEPT ![w] = folded[w] \cup {scanPos[w]}]
               /\ \E c \in {Cut(t.line, SEMI)} :
                    IF c.found
                    THEN \E hash \in {calculateHash(c.before)},
                            value \in {parseMeasurement(c.after)} :
                           m' = [m EXCEPT ![w] =
                                   insertOrAppend(m[w], c.before, hash, value)]
                    ELSE m' = m
          ELSE UNCHANGED <<m, folded>>
  /\ UNCHANGED <<records, file, nWorkerThreads, cpc, ci, resultMap, received,
                 spc, byteOffset, byteLength, readErr, aux>>

\* Scan() returns a line but bytesScanned < job.byteLength fails
JobScanStop(w) ==
  /\ spc[w] = "scan"
  /\ scanPos[w] < fileSize
  /\ ~(bytesScanned[w] < byteLength[w])
  /\ scanPos' = [scanPos EXCEPT ![w] = ScanLines(file, scanPos[w]).next]
  /\ spc' = [spc EXCEPT ![w] = "send"]
  /\ UNCHANGED <<records, file, nWorkerThreads, cpc, ci, resultMap, received,
                 byteOffset, byteLength, bytesScanned, m, folded, readErr,
                 aux>>

\* JobScanEOF with the goroutine going back to range ci without sending
JobScanEOFNoSend(w) ==
  /\ spc[w] = "scan"
  /\ scanPos[w] >= fileSize
  /\ spc' = [spc EXCEPT ![w] = "idle"]
  /\ UNCHANGED <<records, file, nWorkerThreads, cpc, ci, resultMap, received,
                 byteOffset, byteLength, bytesScanned, scanPos, m, folded,
                 readErr, aux>>

\* Scan() returns false at the end of the file
JobScanEOF(w) ==
  /\ spc[w] = "scan"
  /\ scanPos[w] >= fileSize
  /\ spc' = [spc EXCEPT ![w] = "send"]
  /\ UNCHANGED <<records, file, nWorkerThreads, cpc, ci, resultMap, received,
                 byteOffset, byteLength, bytesScanned, scanPos, m, folded,
                 readErr, aux>>

\* co <- m meets m := <-res; mergeMaps(resultMap, m); the goroutine goes
\* back to range ci
ReceiveJob(w) ==
  /\ cpc = "recv"
  /\ spc[w] = "send"
  /\ resultMap' = LocationMapMerge(resultMap, m[w])
  /\ received' = Append(received, w)
  /\ spc' = [spc EXCEPT ![w] = "idle"]
  /\ IF ci + 1 < nWorkerThreads
     THEN ci' = ci + 1 /\ cpc' = cpc
     ELSE ci' = ci + 1 /\ cpc' = "done"
  /\ UNCHANGED <<records, file, nWorkerThreads, byteOffset, byteLength,
                 bytesScanned, scanPos, m, folded, readErr, aux>>

NextJobs ==
  \/ SpawnWorker
  \/ \E w \in Workers : TakeJob(w)
  \/ \E w \in Workers : JobScan(w)
  \/ \E w \in Workers : JobScanStop(w)
  \/ \E w \in Workers : JobScanEOF(w)
  \/ \E w \in Workers : ReceiveJob(w)

SpecJobs == Init /\ [][NextJobs]_vars

\* runs of the job-channel variant on files of one station
InitJobsFair ==
  \E recs \in RecordSeqs({NameA}, FairLines), n \in 1..MaxWorkers :
    InitFor(recs, Render(recs), n)

\* the Go scheduler runs a goroutine that can take a step
SpecJobsFair == InitJobsFair /\ [][NextJobs]_vars /\ WF_vars(NextJobs)

(***************************************************************************)
(* Calls of parseMeasurement on the texts -?d+.d with up to MaxIntDigits   *)
(* integer digits.                                                         *)
(***************************************************************************)
\* no run of parseFile
RunIdle ==
  /\ records = <<>>
  /\ file = <<>>
  /\ nWorkerThreads = 0
  /\ cpc = "idle"
  /\ ci = 0
  /\ resultMap = EmptyMap
  /\ received = <<>>
  /\ spc = <<>>
  /\ byteOffset = <<>>
  /\ byteLength = <<>>
  /\ bytesScanned = <<>>
  /\ scanPos = <<>>
  /\ m = <<>>
  /\ folded = <<>>
  /\ readErr = <<>>

Digits == ZERO..NINE

DigitSeqs(n) == UNION {[1..k -> Digits] : k \in 1..n}

DecimalTexts ==
  {sign \o int \o <<46, frac>> :
     sign \in {<<>>, <<MINUS>>}, int \in DigitSeqs(MaxIntDigits),
     frac \in Digits}

InitParse ==
  /\ RunIdle
  /\ jobs = <<>>
  /\ heap = <<>>
  /\ partial = <<>>
  /\ resultPtr = <<>>
  /\ merged = <<>>
  /\ valueBytes \in DecimalTexts
  /\ parsed = <<>>

\* value := parseMeasurement(valueBytes)
CallParseMeasurement ==
  /\ parsed = <<>>
  /\ valueBytes # <<>>
  /\ parsed' = <<parseMeasurement(valueBytes)>>
  /\ UNCHANGED <<run, jobs, valueBytes, heap, partial, resultPtr, merged>>

NextParse == CallParseMeasurement

SpecParse == InitParse /\ [][NextParse]_vars

(***************************************************************************)
(* resultMap.merge(m) on tables of pointers.  heap[p] is the Location at   *)
(* address p; a table maps keys to addresses; partial is the sequence of   *)
(* the tables received, merged the number of them merged so far.           *)
(***************************************************************************)
\* Location.merge in place: a takes the combined values
LocationMergeHeapInPlace(h, pa, pb) ==
  [heap |-> [h EXCEPT ![pa] = LocationMerge(h[pa], h[pb])], ptr |-> pa]

\* func (a *Location) merge(b *Location) *Location: a new Location
LocationMergeHeap(h, pa, pb) ==
  [heap |-> Append(h, LocationMerge(h[pa], h[pb])), ptr |-> Len(h) + 1]

\* the body of the loop of LocationMap.merge for one key of b
mergeKey(st, b, key) ==
  IF key \in DOMAIN st.table
  THEN LET r == LocationMergeHeap(st.heap, st.table[key], b[key])
       IN  [heap |-> r.heap,
            table |-> [st.table EXCEPT ![key] = r.ptr]]
  ELSE [heap |-> st.heap,
        table |-> [k \in (DOMAIN st.table) \cup {key} |->
                     IF k = key THEN b[key] ELSE st.table[k]]]

\* for key, loc := range b, over the keys not yet visited
RECURSIVE LocationMapMergeHeap(_, _, _)
LocationMapMergeHeap(st, b, keys) ==
  IF keys = {} THEN st
  ELSE LET key == CHOOSE k \in keys : TRUE
       IN  LocationMapMergeHeap(mergeKey(st, b, key), b, keys \ {key})

TableNames == <<NameA, NameABC>>

\* the Locations a scanner makes of one or two lines of a station
ScannedLocations(name) ==
  LET first == NewLocation(name, calculateHash(name), 10)
  IN  {first, LocationAppend(first, -25)}

\* the address of the Location of the k-th name in the t-th table
AddressOf(t, k) == (t - 1) * Len(TableNames) + k

InitMerge ==
  /\ RunIdle
  /\ jobs = <<>>
  /\ valueBytes = <<>>
  /\ parsed = <<>>
  /\ \E n \in 1..MaxTables :
       /\ \E h \in [1..(n * Len(TableNames)) -> 
                      UNION {ScannedLocations(TableNames[k]) :
                               k \in DOMAIN TableNames}] :
            /\ \A t \in 1..n : \A k \in DOMAIN TableNames :
                 h[AddressOf(t, k)] \in ScannedLocations(TableNames[k])
            /\ heap = h
       /\ \E present \in [1..n -> SUBSET (DOMAIN TableNames)] :
            partial =
              [t \in 1..n |->
                 LET ks == {calculateHash(TableNames[k]) : k \in present[t]}
                 IN  [key \in ks |->
                        AddressOf(t, CHOOSE k \in present[t] :
                                       calculateHash(TableNames[k]) = key)]]
  /\ resultPtr = EmptyMap
  /\ merged = 0

\* m := <-res; resultMap.merge(m)
MergeTable ==
  /\ merged < Len(partial)
  /\ LET b == partial[merged + 1]
         r == LocationMapMergeHeap([heap |-> heap, table |-> resultPtr],
                                   b, DOMAIN b)
     IN  /\ heap' = r.heap
         /\ resultPtr' = r.table
  /\ merged' = merged + 1
  /\ UNCHANGED <<run, jobs, valueBytes, parsed, partial>>

NextMerge == MergeTable

SpecMerge == InitMerge /\ [][NextMerge]_vars

(***************************************************************************)
(* parseFile(file, 1) as a function of the file: one goroutine with        *)
(* byteOffset 0 and byteLength fileSize, its table merged into the empty   *)
(* resultMap.                                                              *)
(***************************************************************************)
RECURSIVE scanLoop(_, _, _, _, _)
scanLoop(data, pos, scanned, length, tbl) ==
  IF pos >= Len(data) \/ ~(scanned < length) THEN tbl
  ELSE LET t == ScanLines(data, pos)
       IN  scanLoop(data, t.next, scanned + Len(t.line), length,
                    processLine(t.line, tbl))

SingleWorkerTable(data) ==
  LocationMapMerge(EmptyMap, scanLoop(data, 0, 0, Len(data), EmptyMap))

(***************************************************************************)
(* Notions the properties are stated with.                                 *)
(***************************************************************************)
\* the offsets at which a line of the file starts
LineStarts ==
  {q \in 0..(fileSize - 1) : q = 0 \/ file[q] = NL}

\* the offset of the last byte of the line that starts at q (its '\n', or
\* the last byte of the file)
LineEnd(q) ==
  LET nl == nextNewline(file, q, fileSize)
  IN  IF nl >= 0 THEN nl ELSE fileSize - 1

\* the station name of the line that starts at q
NameAt(q) == Cut(SubSeq(file, q + 1, LineEnd(q) + 1), SEMI).before

\* the scanners that folded the line that starts at q
Folders(q) == {i \in Workers : q \in folded[i]}

\* the station names of a table, and the statistics a table holds for a name
Stations(tbl) == {tbl[key].name : key \in DOMAIN tbl}

StatsOf(tbl, name) ==
  {[min |-> tbl[key].min, max |-> tbl[key].max, sum |-> tbl[key].sum,
    count |-> tbl[key].count] : key \in {k \in DOMAIN tbl : tbl[k].name = name}}

SameTable(a, b) ==
  /\ Stations(a) = Stations(b)
  /\ \A name \in Stations(a) : StatsOf(a, name) = StatsOf(b, name)

\* C1: when parseFile returns, its table has the stations and, per station,
\* the min, max, sum and count of the table parseFile(file, 1) returns,
\* whatever the number of workers and their interleaving.
C1_SameAsSingleWorker ==
  cpc = "done" => SameTable(resultMap, SingleWorkerTable(file))

\* the tenths of the records of a station, in file order
RECURSIVE TenthsOf(_, _)
TenthsOf(recs, name) ==
  IF recs = <<>> THEN <<>>
  ELSE IF Head(recs).name = name
       THEN <<Head(recs).value.tenths>> \o TenthsOf(Tail(recs), name)
       ELSE TenthsOf(Tail(recs), name)

RECURSIVE SumSeq(_)
SumSeq(vs) == IF vs = <<>> THEN 0 ELSE Head(vs) + SumSeq(Tail(vs))

Minimum(vs) ==
  CHOOSE v \in {vs[j] : j \in DOMAIN vs} : \A j \in DOMAIN vs : v <= vs[j]

Maximum(vs) ==
  CHOOSE v \in {vs[j] : j \in DOMAIN vs} : \A j \in DOMAIN vs : v >= vs[j]

ExpectedStats(name) ==
  LET vs == TenthsOf(records, name)
  IN  [min |-> Minimum(vs), max |-> Maximum(vs), sum |-> SumSeq(vs),
       count |-> Len(vs)]

\* C2: in a single-worker run the final table holds, for every station of
\* the file, the minimum, the maximum, the sum (in tenths) and the number of
\* its values.
C2_SingleWorkerStatistics ==
  (cpc = "done" /\ nWorkerThreads = 1) =>
    \A j \in DOMAIN records :
      StatsOf(resultMap, records[j].name) = {ExpectedStats(records[j].name)}

\* a record straddles two nominal ranges when a range starts after its first
\* byte and at or before its last byte
Straddles(q) ==
  \E k \in 1..(nWorkerThreads - 1) :
    q < k * blockSize /\ k * blockSize <= LineEnd(q)

\* the scanner of the nominal range that contains offset q
RangeOf(q) == min(q \div blockSize, nWorkerThreads - 1)

\* C3: a record that straddles two nominal ranges is folded by no scanner
\* but the one of the range that contains its line start, and by that one
\* when the run is complete.
C3_StraddlingFoldedOnce ==
  \A q \in LineStarts :
    Straddles(q) =>
      /\ Folders(q) \subseteq {RangeOf(q)}
      /\ cpc = "done" => Folders(q) = {RangeOf(q)}

\* C4: no line is folded by two scanners, and no scanner folds a line whose
\* first byte lies at or after the nominal start of the next range.
C4_NoOverlap ==
  \A i \in Workers :
    \A q \in folded[i] :
      /\ q < byteOffset[i] + byteLength[i]
      /\ \A j \in Workers \ {i} : q \notin folded[j]

\* C5: when the run is complete every line of the file has been folded by
\* at least one scanner.
C5_NoGap ==
  cpc = "done" => \A q \in LineStarts : Folders(q) # {}

\* the partial tables in the order p, merged from the left into acc
RECURSIVE mergeLeft(_, _)
mergeLeft(acc, tables) ==
  IF tables = <<>> THEN acc
  ELSE mergeLeft(LocationMapMerge(acc, Head(tables)), Tail(tables))

\* the partial tables merged from the right: t1.merge(t2.merge(...))
RECURSIVE mergeRight(_)
mergeRight(tables) ==
  IF Len(tables) = 1 THEN Head(tables)
  ELSE LocationMapMerge(Head(tables), mergeRight(Tail(tables)))

TablesIn(p) == [j \in 1..nWorkerThreads |-> m[p[j] - 1]]

Identity == [j \in 1..nWorkerThreads |-> j]

AllScanned == \A i \in Workers : spc[i] \in {"send", "done"}

\* C6: merging the partial tables of the scanners into an empty table gives
\* the same table in every order and in both groupings, and that table is
\* the one parseFile returns.
C6_MergeOrderIrrelevant ==
  AllScanned =>
    LET canonical == mergeLeft(EmptyMap, TablesIn(Identity))
    IN  /\ \A p \in Permutations(1..nWorkerThreads) :
             /\ mergeLeft(EmptyMap, TablesIn(p)) = canonical
             /\ LocationMapMerge(EmptyMap, mergeRight(TablesIn(p))) = canonical
        /\ cpc = "done" => resultMap = canonical

\* the number of lines of station name that scanner i folded
FoldedOf(i, name) == Cardinality({q \in folded[i] : NameAt(q) = name})

RECURSIVE FoldedBy(_, _)
FoldedBy(scanners, name) ==
  IF scanners = <<>> THEN 0
  ELSE FoldedOf(Head(scanners), name) + FoldedBy(Tail(scanners), name)

\* C7: every entry of a partial table and of the result table aggregates
\* the lines of one station name only: its count is the number of folded
\* lines of the name it stores.
C7_OneNamePerEntry ==
  /\ \A i \in Workers : \A key \in DOMAIN m[i] :
       m[i][key].count = FoldedOf(i, m[i][key].name)
  /\ \A key \in DOMAIN resultMap :
       resultMap[key].count = FoldedBy(received, resultMap[key].name)

\* C8: the coordinator never merges the table of a scanner whose
\* line-by-line read stopped on an error.
C8_NoSilentPartialTable ==
  \A j \in DOMAIN received : ~readErr[received[j]]

\* C9: the coordinator is never left waiting on the result channel when a
\* scanner has returned without sending and no scanner is left to send.
C9_FatalReachesCoordinator ==
  ~(/\ cpc = "recv"
    /\ \E i \in Workers : spc[i] = "returned"
    /\ \A i \in Workers : spc[i] \in {"done", "returned"})

\* the tables of the scanners in the order the coordinator received them
ReceivedTables == [j \in DOMAIN received |-> m[received[j]]]

\* C10: when parseFile returns, the coordinator has received exactly
\* nWorkerThreads tables, exactly one from every scanner, and the result is
\* the merge of exactly the tables received so far.
C10_AllTablesBeforeReturn ==
  /\ cpc = "done" =>
       /\ Len(received) = nWorkerThreads
       /\ \A i \in Workers :
            Cardinality({j \in DOMAIN received : received[j] = i}) = 1
  /\ resultMap = mergeLeft(EmptyMap, ReceivedTables)

\* parseFile has returned after three scanners sent in another order than
\* they were spawned
C10_Witness ==
  /\ cpc = "done"
  /\ nWorkerThreads = 3
  /\ received[1] # 0
  /\ Cardinality(DOMAIN resultMap) = 2

\* the line that starts at q has a ';'
HasSeparator(q) == Cut(SubSeq(file, q + 1, LineEnd(q) + 1), SEMI).found

\* the number of lines <name>;... that scanner i folded
FoldedRecordsOf(i, name) ==
  Cardinality({q \in folded[i] : HasSeparator(q) /\ NameAt(q) = name})

\* C11: a scanner that folds a line with no ';' leaves its table as it is
\* and stays in its scan loop; no table has an entry that is not a station
\* of a record, every count is the number of folded records of the station,
\* and no scanner returns without sending.
C11_NoSeparatorSkipped ==
  /\ [][\A i \in Workers :
          (folded'[i] # folded[i] /\ ~HasSeparator(scanPos[i])) =>
            (m'[i] = m[i] /\ spc'[i] = "scan")]_vars
  /\ [](\A i \in Workers :
          /\ spc[i] # "returned"
          /\ \A key \in DOMAIN m[i] :
               /\ \E j \in DOMAIN records : records[j].name = m[i][key].name
               /\ m[i][key].count = FoldedRecordsOf(i, m[i][key].name))

\* a scanner has folded a line with no ';' and a record after it
C11_Witness ==
  \E i \in Workers : \E q1, q2 \in folded[i] :
    /\ ~HasSeparator(q1)
    /\ q1 < q2
    /\ HasSeparator(q2)
    /\ m[i] # EmptyMap

\* the smallest offset p >= offset whose preceding byte is '\n'
AlignedStart(offset) ==
  CHOOSE p \in offset..fileSize :
    /\ file[p] = NL
    /\ \A q \in offset..(p - 1) : file[q] # NL

\* C13: a scanner of range 0 starts at offset 0 with nothing discarded; a
\* scanner of a later range whose seekToLineStart succeeds starts at the
\* smallest offset p >= byteOffset that follows a '\n' and counts
\* p - byteOffset bytes as discarded; every line a scanner folds starts at a
\* line start of the file.
C13_StartsAtLineBoundary ==
  /\ [][\A i \in Workers :
          (spc[i] = "open" /\ spc'[i] = "scan") =>
            IF byteOffset[i] = 0
            THEN scanPos'[i] = 0 /\ bytesScanned'[i] = 0
            ELSE /\ scanPos'[i] = AlignedStart(byteOffset[i])
                 /\ bytesScanned'[i] = scanPos'[i] - byteOffset[i]]_vars
  /\ [](\A i \in Workers : folded[i] \subseteq LineStarts)

\* a scanner whose range starts in the middle of a line has moved forward
\* and folded a line
C13_Witness ==
  \E i \in Workers :
    /\ byteOffset[i] > 0
    /\ file[byteOffset[i]] # NL
    /\ scanPos[i] > byteOffset[i]
    /\ folded[i] # {}

WellFormed(loc) ==
  /\ loc.count >= 1
  /\ loc.min <= loc.max
  /\ loc.count * loc.min <= loc.sum
  /\ loc.sum <= loc.count * loc.max

\* C20: every Location of every partial table and of the result table has
\* count >= 1, min <= max and count*min <= sum <= count*max; a Location that
\* enters a partial table has min = max = sum and count = 1.
C20_AggregateInvariant ==
  /\ [](/\ \A i \in Workers : \A key \in DOMAIN m[i] : WellFormed(m[i][key])
        /\ \A key \in DOMAIN resultMap : WellFormed(resultMap[key]))
  /\ [][\A i \in Workers : \A key \in (DOMAIN m'[i]) \ (DOMAIN m[i]) :
          /\ m'[i][key].count = 1
          /\ m'[i][key].min = m'[i][key].sum
          /\ m'[i][key].max = m'[i][key].sum]_vars

\* a Location built by Location.append and one built by Location.merge, each
\* of several observations with different values
C20_Witness ==
  /\ \E i \in Workers : \E key \in DOMAIN m[i] :
       m[i][key].count >= 2 /\ m[i][key].min < m[i][key].max
  /\ \E key \in DOMAIN resultMap :
       /\ resultMap[key].min < resultMap[key].max
       /\ \E i, j \in Workers :
            /\ i # j
            /\ key \in DOMAIN m[i] /\ key \in DOMAIN m[j]
            /\ resultMap[key].count >= m[i][key].count + m[j][key].count

\* the goroutines whose tables the coordinator has received
Handed == {received[k] : k \in DOMAIN received}

\* C15: a partial table changes only in a step of the scanner goroutine that
\* made it, while that goroutine is in its scan loop and before the table is
\* sent; the coordinator takes a table only from a goroutine that is at its
\* send and that leaves the table behind; the result table changes only when
\* the coordinator receives.
C15_TablesNotShared ==
  [][/\ \A i \in Workers :
          m'[i] # m[i] =>
            /\ spc[i] = "scan" /\ spc'[i] = "scan"
            /\ scanPos'[i] # scanPos[i]
            /\ i \notin Handed
            /\ received' = received /\ resultMap' = resultMap
            /\ \A j \in Workers \ {i} : m'[j] = m[j] /\ scanPos'[j] = scanPos[j]
     /\ received' # received =>
          /\ Len(received') = Len(received) + 1
          /\ LET i == received'[Len(received')]
             IN  /\ spc[i] = "send" /\ spc'[i] = "done"
                 /\ i \notin Handed
                 /\ m' = m
     /\ resultMap' # resultMap => received' # received]_vars

\* the coordinator holds the table of one goroutine while another goroutine
\* is still folding lines into its own
C15_Witness ==
  \E i, j \in Workers :
    /\ i \in Handed /\ m[i] # EmptyMap
    /\ spc[j] = "scan" /\ m[j] # EmptyMap
    /\ resultMap # EmptyMap

\* the addresses of the Locations of the received tables
PartialAddresses ==
  UNION {{partial[t][key] : key \in DOMAIN partial[t]} : t \in DOMAIN partial}

\* C18: a call of resultMap.merge(m) leaves every Location of every received
\* partial table as it was, also where the result table points to it.
C18_ReceivedLocationsUnchanged ==
  [][\A p \in PartialAddresses :
       /\ p \in DOMAIN heap'
       /\ heap'[p] = heap[p]]_vars

\* the result table points to a Location of an earlier table and to a
\* Location built by combining two aggregates
C18_Witness ==
  /\ merged >= 2
  /\ \E key \in DOMAIN resultPtr : resultPtr[key] \in PartialAddresses
  /\ \E key \in DOMAIN resultPtr :
       /\ resultPtr[key] \notin PartialAddresses
       /\ heap[resultPtr[key]].count >= 2

\* the line that starts at q ends with the last byte of a nominal range
EndsAtBoundary(q) ==
  \E k \in 1..(nWorkerThreads - 1) : LineEnd(q) + 1 = k * blockSize

\* C14: in the variants that seek to byteOffset - 1 and fold the lines that
\* isValidLine accepts, a goroutine folds nothing but whole lines of the
\* file, every station of a table is the station of a record, and a record
\* that straddles or ends at a range boundary is folded by at most one
\* goroutine, and by one when the run is complete.
C14_PartialLineDiscarded ==
  /\ \A w \in Workers :
       /\ folded[w] \subseteq LineStarts
       /\ \A key \in DOMAIN m[w] :
            \E j \in DOMAIN records : records[j].name = m[w][key].name
  /\ \A q \in LineStarts :
       (Straddles(q) \/ EndsAtBoundary(q)) =>
         /\ Cardinality(Folders(q)) <= 1
         /\ cpc = "done" => Cardinality(Folders(q)) = 1

\* C16: in the job-channel variants no goroutine takes a second job, the
\* k-th job taken is the k-th range, and once the jobs are all sent every
\* goroutine has taken one.
C16_OneJobPerWorker ==
  /\ \A j, k \in DOMAIN jobs : j # k => jobs[j][1] # jobs[k][1]
  /\ \A k \in DOMAIN jobs : jobs[k][2] = k - 1
  /\ Len(jobs) <= nWorkerThreads
  /\ cpc \in {"recv", "done"} =>
       {jobs[k][1] : k \in DOMAIN jobs} = Workers

\* the run is complete, a goroutine is back at the job channel after it sent
\* its table, and a goroutine took a range other than the one of its number
C16_Witness ==
  /\ cpc = "done"
  /\ nWorkerThreads >= 2
  /\ Len(jobs) = nWorkerThreads
  /\ \A w \in Workers : spc[w] = "idle"
  /\ \E k \in DOMAIN jobs : jobs[k][1] # jobs[k][2]

\* C17: under the scheduling of runnable goroutines the coordinator of the
\* job-channel variants sends all nWorkerThreads jobs and then receives
\* nWorkerThreads tables, never more, one from every goroutine.
C17_FanOutFanInCompletes ==
  /\ <>(Len(jobs) = nWorkerThreads)
  /\ <>(cpc = "done" /\ Len(received) = nWorkerThreads)
  /\ [](Len(received) <= nWorkerThreads)
  /\ [](Len(received) > 0 => Len(jobs) = nWorkerThreads)
  /\ [](cpc = "done" => {received[k] : k \in DOMAIN received} = Workers)

\* the coordinator has received all the tables, the first of them from a
\* goroutine other than the one that took the first job
C17_Witness ==
  /\ cpc = "done"
  /\ nWorkerThreads >= 2
  /\ Len(received) = nWorkerThreads
  /\ Len(jobs) = nWorkerThreads
  /\ received[1] # jobs[1][1]

\* C19: when parseFile of a job-channel variant has returned, every
\* goroutine it started has returned: none is blocked on the job channel or
\* on the result channel.
C19_WorkersTerminated ==
  cpc = "done" => \A w \in Workers : spc[w] = "returned"

\* ten to the power n
RECURSIVE Pow10(_)
Pow10(n) == IF n = 0 THEN 1 ELSE 10 * Pow10(n - 1)

\* the number of tenths that the text -?d+.d denotes, read by the place
\* value of its digits
DenotedTenths(text) ==
  LET negative == text[1] = MINUS
      body == IF negative THEN Tail(text) ELSE text
      point == Len(body) - 1
      units == SumSeq([k \in 1..(point - 1) |->
                         (body[k] - ZERO) * Pow10(point - 1 - k)])
      magnitude == units * 10 + (body[Len(body)] - ZERO)
  IN  IF negative THEN 0 - magnitude ELSE magnitude

\* C12: parseMeasurement returns the number of tenths its argument denotes,
\* with the sign; "-3.2" gives -32, "0.0" gives 0 and "-0.5" gives -5.
C12_ParseExactTenths ==
  parsed # <<>> =>
    /\ parsed[1] = DenotedTenths(valueBytes)
    /\ valueBytes = <<45, 51, 46, 50>> => parsed[1] = -32
    /\ valueBytes = <<48, 46, 48>> => parsed[1] = 0
    /\ valueBytes = <<45, 48, 46, 53>> => parsed[1] = -5

\* parseMeasurement has returned -32 for "-3.2"
C12_Witness ==
  valueBytes = <<45, 51, 46, 50>> /\ parsed = <<-32>>

\* the single-worker function is the single-worker run of the model
SingleWorkerAgrees ==
  (cpc = "done" /\ nWorkerThreads = 1) => resultMap = SingleWorkerTable(file)

TypeOK ==
  /\ cpc \in {"idle", "spawn", "jobs", "recv", "done"}
  /\ \A i \in Workers :
       spc[i] \in {"unspawned", "idle", "open", "scan", "send", "done",
                  "returned"}

====
